---- MODULE Spec2Model ----
(***************************************************************************)
(* The shopping tools of shopping_tools.py: VisualSearchTool, NavigateTool *)
(* (with resolve_url_headless) and AddToCartTool, sharing the process-wide *)
(* SHARED_BROWSER_STATE.  Every tool call is a coroutine: a caller runs    *)
(* atomically from one `await` to the next, and the steps of different     *)
(* callers interleave at the awaits (one asyncio event loop).  Every       *)
(* awaited driver / browser / network operation may fail.                  *)
(*                                                                         *)
(* Strings are sequences of tokens: a token is a run of characters that    *)
(* urllib.parse.quote leaves alone ("https", "//shop.example/item/42"), a  *)
(* reserved character (":", "?", "=", "&", "%") or the two hex digits of a *)
(* percent escape ("3A" after "%").                                        *)
(***************************************************************************)
EXTENDS Integers, Sequences, FiniteSets, TLC

\* ------------------------------------------------------------- bounds
\* concurrent callers (event-loop tasks) and tool calls made in one run
NumCallers == 2
MaxCalls == 2
\* longest shopping_results list the search API returns in the model
MaxResults == 8

\* ------------------------------------------------------------- constants
\* `if count >= 6: break`
MaxCards == 6
\* Python's None for a handle; handles are numbered from 1
None == 0

Callers == 1..NumCallers

\* ------------------------------------------------------------- strings
\* the characters urllib.parse.quote escapes (safe="/"), with the two hex
\* digits of each; a percent escape is the token "%" followed by the token of
\* its two hex digits, so "%3A" is << "%", "3A" >> and "%253A" is
\* << "%", "25", "3A" >>
Escapes == (":" :> "3A") @@ ("?" :> "3F") @@ ("=" :> "3D") @@ ("&" :> "26")
             @@ ("%" :> "25")

\* urllib.parse.quote of one token: the tokens it becomes
QuoteTok(t) == IF t \in DOMAIN Escapes THEN << "%", Escapes[t] >> ELSE << t >>

\* urllib.parse.quote(s) with the default safe="/"
RECURSIVE quote(_)
quote(s) == IF s = << >> THEN << >> ELSE QuoteTok(Head(s)) \o quote(Tail(s))

\* the character a pair of hex digits stands for
Unescaped(hex) == CHOOSE c \in DOMAIN Escapes : Escapes[c] = hex

\* urllib.parse.unquote(s): one pass, each "%" with its hex digits becomes
\* the character; a "%" without hex digits stays
RECURSIVE unquote(_)
unquote(s) ==
  IF s = << >> THEN << >>
  ELSE IF Len(s) >= 2 /\ s[1] = "%" /\ \E c \in DOMAIN Escapes : Escapes[c] = s[2]
  THEN << Unescaped(s[2]) >> \o unquote(SubSeq(s, 3, Len(s)))
  ELSE << Head(s) >> \o unquote(Tail(s))

\* `"google.com" in s`
HasGoogle(s) == \E i \in 1..Len(s) : s[i] = "google.com"

\* index of the first token equal to t, 0 when there is none
FirstIndex(s, t) ==
  IF \E i \in 1..Len(s) : s[i] = t
  THEN CHOOSE i \in 1..Len(s) : s[i] = t /\ \A j \in 1..(i - 1) : s[j] # t
  ELSE 0

\* urllib.parse.urlparse(raw).query: what follows the first "?"
urlparse_query(raw) ==
  IF FirstIndex(raw, "?") = 0 THEN << >>
  ELSE SubSeq(raw, FirstIndex(raw, "?") + 1, Len(raw))

\* the "name=value" pieces of a query string, split on "&"
RECURSIVE SplitAmp(_)
SplitAmp(q) ==
  IF FirstIndex(q, "&") = 0 THEN << q >>
  ELSE << SubSeq(q, 1, FirstIndex(q, "&") - 1) >>
         \o SplitAmp(SubSeq(q, FirstIndex(q, "&") + 1, Len(q)))

\* urllib.parse.parse_qs(query).get("q", [None])[0]: the unquoted value of
\* the first non-blank q= piece; << >> stands for None (both are falsy)
parse_qs_q(query) ==
  LET pieces == SplitAmp(query)
      isQ(k) == Len(pieces[k]) > 2 /\ pieces[k][1] = "q" /\ pieces[k][2] = "="
  IN IF \E k \in 1..Len(pieces) : isQ(k)
     THEN LET k == CHOOSE k \in 1..Len(pieces) :
                     isQ(k) /\ \A j \in 1..(k - 1) : ~isQ(j)
          IN unquote(SubSeq(pieces[k], 3, Len(pieces[k])))
     ELSE << >>

\* ------------------------------------------------------------- the web
ShopUrl == << "https", ":", "//shop.example/item/42" >>
StoreUrl == << "https", ":", "//store.example/p/7" >>
GoogleUrl == << "https", ":", "//www.", "google.com", "/shopping/product/1" >>
ShortUrl == << "https", ":", "//short.example/x" >>

\* where a page.goto(url) that succeeds can land (after HTTP redirects)
Landings(url) ==
  IF url = GoogleUrl THEN {GoogleUrl, ShopUrl}
  ELSE IF url = ShortUrl THEN {GoogleUrl, StoreUrl}
  ELSE {url}

\* href values of the first a[href*='url?q='] anchor of a Google page
Hrefs ==
  { << "/url", "?", "q", "=", "https", "%", "3A", "//shop.example/item/42",
       "&", "sa", "=", "U" >>,
    << "/url", "?", "q", "=", "&", "sa", "=", "U" >> }

\* URL of the tab that a click on .sh-osd__offer-row opens
OfferUrls == {StoreUrl}

\* ------------------------------------------------------------- state
\* the selector priority list of AddToCartTool.execute
selectors ==
  << "#add-to-cart-button", "#add-to-cart-button-ubb",
     "[data-automation-id='add-to-cart']", "button[name='add']",
     "button:has-text('Add to Cart')", "button:has-text('Add to Bag')",
     "form[action*='/cart/add'] button", ".add-to-cart" >>

Selectors == {selectors[i] : i \in 1..Len(selectors)}

\* selector sets that the pages served in the concurrent model expose
SampleContents ==
  { {}, {"button:has-text('Add to Bag')"},
    {"button[name='add']", ".add-to-cart"} }

VARIABLES
  SHARED_BROWSER_STATE, \* [playwright, browser, page]: handles or None
  created,              \* visible drivers / browsers / contexts / pages made
  pages,                \* visible page handle -> [url, vis]
  hlOpen,               \* running headless browsers: [caller, ended], ended once
                        \* the call that launched it is over
  pc,                   \* caller -> the await it is suspended at
  frame,                \* caller -> locals of its current call
  ncalls,               \* tool calls made so far
  shopping_results,     \* what the search API answers in this run
  opened                \* some NavigateTool.execute returned its success string

vars == << SHARED_BROWSER_STATE, created, pages, hlOpen, pc, frame, ncalls,
          shopping_results, opened >>

\* what a call returns: the fixed part of the string, and the URL, the cards
\* or the exception text formatted into it
NoResult == [kind |-> "", url |-> << >>, cards |-> << >>, error |-> ""]
Result(kind) == [kind |-> kind, url |-> << >>, cards |-> << >>, error |-> ""]
ResultUrl(kind, url) == [kind |-> kind, url |-> url, cards |-> << >>, error |-> ""]
ResultError(kind, e) == [kind |-> kind, url |-> << >>, cards |-> << >>, error |-> e]

\* str(e) of the exceptions a failed page.goto raises
GotoErrors == {"Timeout 60000ms exceeded.", "net::ERR_NAME_NOT_RESOLVED"}

\* str(e) of the exceptions a failed is_visible or click raises
ClickErrors == {"Timeout 30000ms exceeded.", "Target page, context or browser has been closed"}

\* str(e) of the exceptions a failed search.get_dict raises
SearchErrors == {"Connection aborted.", "Expecting value: line 1 column 1 (char 0)"}

\* the locals of a call that has just been made
Frame(tool, url, was_opened, state) ==
  [ tool |-> tool, url |-> url, decoded_url |-> << >>, clean_url |-> << >>,
    dirty_url |-> << >>, page |-> None, hl_url |-> << >>, new_url |-> << >>,
    pending |-> [raises |-> FALSE, value |-> << >>],
    i |-> 0, results |-> << >>, result |-> NoResult,
    \* what the call has done so far (observation only)
    inits |-> 0, afterOpened |-> was_opened, atCall |-> state,
    atReturn |-> state,
    nav_failed |-> FALSE, extraction |-> FALSE,
    checks |-> 0, clicks |-> 0, clicked |-> "", faulted |-> FALSE ]

NewFrame(tool, url) == Frame(tool, url, opened, SHARED_BROWSER_STATE)

\* SHARED_BROWSER_STATE as the module sets it, and once a session exists
NoSession == [playwright |-> None, browser |-> None, page |-> None]
OneSession == [playwright |-> 1, browser |-> 1, page |-> 1]

Ended == {"idle", "done", "raised"}

Init ==
  /\ SHARED_BROWSER_STATE = NoSession
  /\ created = [drivers |-> 0, browsers |-> 0, contexts |-> 0, pages |-> 0]
  /\ pages = << >>
  /\ hlOpen = {}
  /\ pc = [p \in Callers |-> "idle"]
  /\ frame = [p \in Callers |-> Frame("none", << >>, FALSE, NoSession)]
  /\ ncalls = 0
  /\ shopping_results = << >>
  /\ opened = FALSE

\* the call of p returns res to its caller
Return(p, fr, res) ==
  /\ pc' = [pc EXCEPT ![p] = "done"]
  /\ frame' = [frame EXCEPT ![p] =
                 [fr EXCEPT !.result = res, !.atReturn = SHARED_BROWSER_STATE']]

\* an exception leaves the call of p
Raise(p, fr) ==
  /\ pc' = [pc EXCEPT ![p] = "raised"]
  /\ frame' = [frame EXCEPT ![p] =
                 [fr EXCEPT !.result = Result("raised"),
                            !.atReturn = SHARED_BROWSER_STATE']]

\* p suspends at the await named at
Await(p, fr, at) ==
  /\ pc' = [pc EXCEPT ![p] = at]
  /\ frame' = [frame EXCEPT ![p] = fr]

\* ------------------------------------------------------------- NavigateTool
\* `if SHARED_BROWSER_STATE["playwright"] is None`
NeedsInitAlways(state) == TRUE
NeedsInit(state) == state.playwright = None

\* lines 128-131: page = SHARED_BROWSER_STATE["page"]; try: await page.goto(...)
\* (page.goto on None raises AttributeError inside the try, before any await)
DrivePage(p, fr, state) ==
  IF state.page = None
  THEN Return(p, fr, ResultError("Navigation Error",
                                 "'NoneType' object has no attribute 'goto'"))
  ELSE Await(p, [fr EXCEPT !.page = state.page], "n_goto")

\* lines 116-131, reached without suspension once clean_url is known
VisibleStage(p, fr) ==
  /\ UNCHANGED << SHARED_BROWSER_STATE, created, pages >>
  /\ IF NeedsInit(SHARED_BROWSER_STATE)
     THEN Await(p, fr, "n_start")
     ELSE DrivePage(p, fr, SHARED_BROWSER_STATE)

\* lines 103-118: execute(url) up to its first await
NavigateCall(p, url) ==
  /\ pc[p] \in Ended
  /\ ncalls < MaxCalls
  /\ ncalls' = ncalls + 1
  /\ UNCHANGED << hlOpen, shopping_results, opened >>
  /\ LET decoded == unquote(url)
         fr == [NewFrame("navigate", url) EXCEPT
                  !.decoded_url = decoded, !.clean_url = decoded,
                  !.dirty_url = decoded]
     IN IF HasGoogle(decoded)
        THEN /\ Await(p, fr, "r_enter")
             /\ UNCHANGED << SHARED_BROWSER_STATE, created, pages >>
        ELSE VisibleStage(p, fr)

\* line 119-120: p = await async_playwright().start()
N_Start(p) ==
  /\ pc[p] = "n_start"
  /\ UNCHANGED << pages, hlOpen, ncalls, shopping_results, opened >>
  /\ \E ok \in BOOLEAN :
       IF ok
       THEN /\ created' = [created EXCEPT !.drivers = @ + 1]
            /\ SHARED_BROWSER_STATE' =
                 [SHARED_BROWSER_STATE EXCEPT !.playwright = created.drivers + 1]
            /\ Await(p, [frame[p] EXCEPT !.inits = @ + 1], "n_launch")
       ELSE /\ UNCHANGED << created, SHARED_BROWSER_STATE >>
            /\ Raise(p, frame[p])

\* line 122-123: browser = await p.chromium.launch(headless=False, ...)
N_Launch(p) ==
  /\ pc[p] = "n_launch"
  /\ UNCHANGED << pages, hlOpen, ncalls, shopping_results, opened >>
  /\ \E ok \in BOOLEAN :
       IF ok
       THEN /\ created' = [created EXCEPT !.browsers = @ + 1]
            /\ SHARED_BROWSER_STATE' =
                 [SHARED_BROWSER_STATE EXCEPT !.browser = created.browsers + 1]
            /\ Await(p, [frame[p] EXCEPT !.inits = @ + 1], "n_context")
       ELSE /\ UNCHANGED << created, SHARED_BROWSER_STATE >>
            /\ Raise(p, frame[p])

\* line 124: context = await browser.new_context(viewport=...)
N_Context(p) ==
  /\ pc[p] = "n_context"
  /\ UNCHANGED << SHARED_BROWSER_STATE, pages, hlOpen, ncalls, shopping_results, opened >>
  /\ \E ok \in BOOLEAN :
       IF ok
       THEN /\ created' = [created EXCEPT !.contexts = @ + 1]
            /\ Await(p, [frame[p] EXCEPT !.inits = @ + 1], "n_newpage")
       ELSE /\ UNCHANGED created
            /\ Raise(p, frame[p])

\* lines 125-131: page = await context.new_page(); store it; read it back; goto
N_NewPage(p) ==
  /\ pc[p] = "n_newpage"
  /\ UNCHANGED << hlOpen, ncalls, shopping_results, opened >>
  /\ \E ok \in BOOLEAN :
       IF ok
       THEN /\ created' = [created EXCEPT !.pages = @ + 1]
            /\ pages' = Append(pages, [url |-> << >>, vis |-> {}])
            /\ SHARED_BROWSER_STATE' =
                 [SHARED_BROWSER_STATE EXCEPT !.page = created.pages + 1]
            /\ DrivePage(p, [frame[p] EXCEPT !.inits = @ + 1],
                         SHARED_BROWSER_STATE')
       ELSE /\ UNCHANGED << created, pages, SHARED_BROWSER_STATE >>
            /\ Raise(p, frame[p])

\* line 131: await page.goto(clean_url, timeout=60000, ...)
N_Goto(p) ==
  /\ pc[p] = "n_goto"
  /\ UNCHANGED << SHARED_BROWSER_STATE, created, hlOpen, ncalls, shopping_results, opened >>
  /\ \E ok \in BOOLEAN :
       IF ok
       THEN /\ \E to \in Landings(frame[p].clean_url), vis \in SampleContents :
                 pages' = [pages EXCEPT ![frame[p].page] = [url |-> to, vis |-> vis]]
            /\ Await(p, frame[p], "n_cookie")
       ELSE /\ UNCHANGED pages
            /\ \E e \in GotoErrors :
                 Return(p, frame[p], ResultError("Navigation Error", e))

\* lines 133-136: the cookie click, whose failure is swallowed, then the
\* success string
N_Cookie(p) ==
  /\ pc[p] = "n_cookie"
  /\ UNCHANGED << SHARED_BROWSER_STATE, created, pages, hlOpen, ncalls,
                  shopping_results >>
  /\ opened' = TRUE
  /\ Return(p, frame[p], ResultUrl("Browser Opened", frame[p].clean_url))

\* ------------------------------------------------------------- resolver
\* resolve_url_headless(dirty_url) called on its own
ResolveCall(p, url) ==
  /\ pc[p] \in Ended
  /\ ncalls < MaxCalls
  /\ ncalls' = ncalls + 1
  /\ UNCHANGED << SHARED_BROWSER_STATE, created, pages, hlOpen,
                  shopping_results, opened >>
  /\ Await(p, [NewFrame("resolve", url) EXCEPT !.dirty_url = url], "r_enter")

\* the resolver fails: the exception unwinds to the async-with exit
Unwind(p, fr) ==
  Await(p, [fr EXCEPT !.pending = [raises |-> TRUE, value |-> << >>]], "r_exit")

\* the resolver reaches `return value`: the finally clause runs next
Finally(p, fr, value) ==
  Await(p, [fr EXCEPT !.pending = [raises |-> FALSE, value |-> value]], "r_close")

\* the headless browser of the call that caller p is making, and the same
\* browser once that call is over
Own(p) == [caller |-> p, ended |-> FALSE]
Left(p) == [caller |-> p, ended |-> TRUE]

\* `if "google.com" in page.url`
StillOnGoogleAlways(page_url) == TRUE
StillOnGoogle(page_url) == HasGoogle(page_url)

\* line 142: async with async_playwright() as p   (the driver starts)
R_Enter(p) ==
  /\ pc[p] = "r_enter"
  /\ UNCHANGED << SHARED_BROWSER_STATE, created, pages, hlOpen, ncalls,
                  shopping_results, opened >>
  /\ \E ok \in BOOLEAN :
       IF ok THEN Await(p, frame[p], "r_launch") ELSE Raise(p, frame[p])

\* line 144: browser = await p.chromium.launch(headless=True)
R_Launch(p) ==
  /\ pc[p] = "r_launch"
  /\ UNCHANGED << SHARED_BROWSER_STATE, created, pages, ncalls, shopping_results, opened >>
  /\ \E ok \in BOOLEAN :
       IF ok
       THEN /\ hlOpen' = hlOpen \cup {Own(p)}
            /\ Await(p, frame[p], "r_newpage")
       ELSE /\ UNCHANGED hlOpen
            /\ Unwind(p, frame[p])

\* line 145: page = await browser.new_page(user_agent=...)
R_NewPage(p) ==
  /\ pc[p] = "r_newpage"
  /\ UNCHANGED << SHARED_BROWSER_STATE, created, pages, hlOpen, ncalls,
                  shopping_results, opened >>
  /\ \E ok \in BOOLEAN :
       IF ok THEN Await(p, frame[p], "r_goto") ELSE Unwind(p, frame[p])

\* lines 147-154 and 169-171: await page.goto(dirty_url, timeout=30000, ...)
R_Goto(p) ==
  /\ pc[p] = "r_goto"
  /\ UNCHANGED << SHARED_BROWSER_STATE, created, pages, hlOpen, ncalls,
                  shopping_results, opened >>
  /\ \E ok \in BOOLEAN :
       IF ok
       THEN \E to \in Landings(frame[p].dirty_url) :
              IF StillOnGoogle(to)
              THEN Await(p, [frame[p] EXCEPT !.hl_url = to, !.extraction = TRUE],
                         "r_count")
              ELSE Finally(p, [frame[p] EXCEPT !.hl_url = to], to)
       ELSE Finally(p, [frame[p] EXCEPT !.nav_failed = TRUE], frame[p].dirty_url)

\* lines 153-154, 160: await link.count(), whose failure is swallowed
R_Count(p) ==
  /\ pc[p] = "r_count"
  /\ UNCHANGED << SHARED_BROWSER_STATE, created, pages, hlOpen, ncalls,
                  shopping_results, opened >>
  /\ \E count \in {-1, 0, 1} :
       IF count > 0 THEN Await(p, frame[p], "r_attr")
       ELSE Await(p, frame[p], "r_click")

\* lines 155-160: raw = await link.get_attribute("href"); parse out q
R_Attr(p) ==
  /\ pc[p] = "r_attr"
  /\ UNCHANGED << SHARED_BROWSER_STATE, created, pages, hlOpen, ncalls,
                  shopping_results, opened >>
  /\ \E ok \in BOOLEAN :
       IF ok
       THEN \E raw \in Hrefs :
              LET clean == parse_qs_q(urlparse_query(raw))
              IN IF clean # << >>
                 THEN Finally(p, frame[p], clean)
                 ELSE Await(p, frame[p], "r_click")
       ELSE Await(p, frame[p], "r_click")

\* lines 163-164: inside `async with page.context.expect_page()`,
\* await page.locator(".sh-osd__offer-row").first.click()
R_Click(p) ==
  /\ pc[p] = "r_click"
  /\ UNCHANGED << SHARED_BROWSER_STATE, created, pages, hlOpen, ncalls,
                  shopping_results, opened >>
  /\ \E ok \in BOOLEAN :
       IF ok THEN Await(p, frame[p], "r_tab")
       ELSE Finally(p, frame[p], frame[p].dirty_url)

\* lines 163-165: leaving expect_page() waits for the new tab;
\* new_page = await new_page_info.value
R_Tab(p) ==
  /\ pc[p] = "r_tab"
  /\ UNCHANGED << SHARED_BROWSER_STATE, created, pages, hlOpen, ncalls,
                  shopping_results, opened >>
  /\ \E ok \in BOOLEAN :
       IF ok
       THEN \E to \in OfferUrls :
              Await(p, [frame[p] EXCEPT !.new_url = to], "r_load")
       ELSE Finally(p, frame[p], frame[p].dirty_url)

\* lines 166-167: await new_page.wait_for_load_state(...); return new_page.url
R_Load(p) ==
  /\ pc[p] = "r_load"
  /\ UNCHANGED << SHARED_BROWSER_STATE, created, pages, hlOpen, ncalls,
                  shopping_results, opened >>
  /\ \E ok \in BOOLEAN :
       IF ok THEN Finally(p, frame[p], frame[p].new_url)
       ELSE Finally(p, frame[p], frame[p].dirty_url)

\* lines 172-173: finally: await browser.close()
R_Close(p) ==
  /\ pc[p] = "r_close"
  /\ UNCHANGED << SHARED_BROWSER_STATE, created, pages, ncalls, shopping_results, opened >>
  /\ \E ok \in BOOLEAN :
       IF ok
       THEN /\ hlOpen' = hlOpen \ {Own(p)}
            /\ Await(p, frame[p], "r_exit")
       ELSE /\ UNCHANGED hlOpen
            /\ Unwind(p, frame[p])

\* line 142 on the way out: the async-with exit awaits the stop of the
\* driver, which may fail.  The code releases the browser only at line 173;
\* whether a browser that is still running then goes down with the driver is
\* not settled by the code, so both outcomes are taken.  Then back in the
\* caller: an exception leaves execute at line 112, a value becomes clean_url
R_Exit(p) ==
  /\ pc[p] = "r_exit"
  /\ UNCHANGED << ncalls, shopping_results, opened >>
  /\ \E ok \in BOOLEAN,
        gone \in (IF Own(p) \in hlOpen THEN BOOLEAN ELSE {TRUE}) :
       /\ hlOpen' = IF gone THEN hlOpen \ {Own(p)}
                    ELSE (hlOpen \ {Own(p)}) \cup {Left(p)}
       /\ IF frame[p].pending.raises \/ ~ok
          THEN /\ UNCHANGED << SHARED_BROWSER_STATE, created, pages >>
               /\ Raise(p, frame[p])
          ELSE IF frame[p].tool = "resolve"
          THEN /\ UNCHANGED << SHARED_BROWSER_STATE, created, pages >>
               /\ Return(p, frame[p], ResultUrl("url", frame[p].pending.value))
          ELSE VisibleStage(p, [frame[p] EXCEPT
                                  !.clean_url = frame[p].pending.value])

\* ------------------------------------------------------------- AddToCartTool
\* `if not page`
NoPageNever(page) == FALSE
NoPage(page) == page = None

\* `if await page.locator(selector).first.is_visible()` decides to click
ShouldClickAlways(visible) == TRUE
ShouldClick(visible) == visible

\* lines 188-204: execute() up to its first await (a locator on None raises
\* AttributeError inside the try)
AddToCartCall(p) ==
  /\ pc[p] \in Ended
  /\ ncalls < MaxCalls
  /\ ncalls' = ncalls + 1
  /\ UNCHANGED << SHARED_BROWSER_STATE, created, pages, hlOpen,
                  shopping_results, opened >>
  /\ LET page == SHARED_BROWSER_STATE.page
         fr == [NewFrame("click", << >>) EXCEPT !.page = page]
     IN IF NoPage(page) THEN Return(p, fr, Result("Error: No browser open."))
        ELSE IF page = None
        THEN Return(p, [fr EXCEPT !.faulted = TRUE],
                    ResultError("Click Error",
                                "'NoneType' object has no attribute 'locator'"))
        ELSE Await(p, [fr EXCEPT !.i = 1], "c_visible")

\* lines 203-211: one is_visible() of the loop, and the loop's end
C_Visible(p) ==
  /\ pc[p] = "c_visible"
  /\ UNCHANGED << SHARED_BROWSER_STATE, created, pages, hlOpen, ncalls,
                  shopping_results, opened >>
  /\ \E ok \in BOOLEAN :
       LET fr == [frame[p] EXCEPT !.checks = @ + 1]
           visible == selectors[fr.i] \in pages[fr.page].vis
       IN IF ~ok
          THEN \E e \in ClickErrors :
                 Return(p, [fr EXCEPT !.faulted = TRUE], ResultError("Click Error", e))
          ELSE IF ShouldClick(visible) THEN Await(p, fr, "c_click")
          ELSE IF fr.i < Len(selectors)
          THEN Await(p, [fr EXCEPT !.i = @ + 1], "c_visible")
          ELSE Return(p, fr, Result("FAILED: Could not find 'Add to Cart' button."))

\* lines 206-208, 214: await ...click(force=True); clicked = True; break
C_Click(p) ==
  /\ pc[p] = "c_click"
  /\ UNCHANGED << SHARED_BROWSER_STATE, created, pages, hlOpen, ncalls,
                  shopping_results, opened >>
  /\ \E ok \in BOOLEAN :
       IF ok
       THEN Await(p, [frame[p] EXCEPT !.clicks = @ + 1,
                                      !.clicked = selectors[frame[p].i]], "c_sleep")
       ELSE \E e \in ClickErrors :
              Return(p, [frame[p] EXCEPT !.faulted = TRUE], ResultError("Click Error", e))

\* lines 214-215: await asyncio.sleep(5); return the success string
C_Sleep(p) ==
  /\ pc[p] = "c_sleep"
  /\ UNCHANGED << SHARED_BROWSER_STATE, created, pages, hlOpen, ncalls,
                  shopping_results, opened >>
  /\ Return(p, frame[p], Result("Success: Item added to cart."))

\* ------------------------------------------------------------- VisualSearchTool
\* p.get(key, default)
Get(p, key, default) == IF key \in DOMAIN p THEN p[key] ELSE default

\* `if count >= 6: break`
CapReachedLate(count) == count > MaxCards
CapReached(count) == count >= MaxCards

\* lines 55-85: the loop over results, from item k on; << >> is a missing
\* (None) or empty link, both falsy
RECURSIVE html_output(_, _, _, _)
html_output(results, k, count, out) ==
  IF k > Len(results) \/ CapReached(count) THEN out
  ELSE LET p == results[k]
           link == Get(p, "link", << >>)
           raw_link == IF link # << >> THEN link ELSE Get(p, "product_link", << >>)
       IN IF raw_link = << >>
          THEN html_output(results, k + 1, count, out)
          ELSE html_output(results, k + 1, count + 1,
                 Append(out, [ img |-> Get(p, "thumbnail", ""),
                               title |-> Get(p, "title", "Unknown"),
                               price |-> Get(p, "price", "Check Site"),
                               source |-> Get(p, "source", "Web"),
                               encoded_link |-> quote(raw_link) ]))

\* the item the API returns at position i: its title tells the position;
\* linked marks whether it carries a usable link
Item(i, linked) ==
  IF linked
  THEN IF i % 2 = 1
       THEN [title |-> i, link |-> ShopUrl, price |-> "$5"]
       ELSE [title |-> i, link |-> << >>, product_link |-> GoogleUrl]
  ELSE IF i % 3 = 0
       THEN [title |-> i, link |-> << >>, source |-> "Shop"]
       ELSE [title |-> i, thumbnail |-> "t.png"]

\* the answers of the search API: up to MaxResults items
ResultLists ==
  UNION { { [i \in 1..n |-> Item(i, f[i])] : f \in [1..n -> BOOLEAN] } :
          n \in 0..MaxResults }

\* lines 29-42: execute(query) up to the awaited API call
SearchCall(p, api_key) ==
  /\ pc[p] \in Ended
  /\ ncalls < MaxCalls
  /\ ncalls' = ncalls + 1
  /\ UNCHANGED << SHARED_BROWSER_STATE, created, pages, hlOpen,
                  shopping_results, opened >>
  /\ IF ~api_key
     THEN Return(p, NewFrame("search", << >>), Result("Error: SERPAPI_KEY missing."))
     ELSE Await(p, NewFrame("search", << >>), "s_api")

\* lines 42-87: the API answers or fails; the cards are rendered
S_Api(p) ==
  /\ pc[p] = "s_api"
  /\ UNCHANGED << SHARED_BROWSER_STATE, created, pages, hlOpen, ncalls,
                  shopping_results, opened >>
  /\ \E ok \in BOOLEAN :
       LET results == shopping_results
           fr == [frame[p] EXCEPT !.results = results]
       IN IF ~ok
          THEN \E e \in SearchErrors :
                 Return(p, [frame[p] EXCEPT !.faulted = TRUE], ResultError("Search Error", e))
          ELSE IF results = << >> THEN Return(p, fr, Result("No products found."))
          ELSE Return(p, fr, [kind |-> "grid-container", url |-> << >>,
                              cards |-> html_output(results, 1, 0, << >>),
                              error |-> ""])

\* ------------------------------------------------------------- specifications
\* the URLs the page hands to /execute_buy: quoted by VisualSearchTool
NavigateInputs == {quote(ShopUrl), quote(GoogleUrl)}
ResolveInputs == {ShopUrl, GoogleUrl, ShortUrl}

NavigateSteps(p) ==
  \/ N_Start(p) \/ N_Launch(p) \/ N_Context(p) \/ N_NewPage(p)
  \/ N_Goto(p) \/ N_Cookie(p)

ResolveSteps(p) ==
  \/ R_Enter(p) \/ R_Launch(p) \/ R_NewPage(p) \/ R_Goto(p) \/ R_Count(p)
  \/ R_Attr(p) \/ R_Click(p) \/ R_Tab(p) \/ R_Load(p) \/ R_Close(p) \/ R_Exit(p)

ClickSteps(p) == C_Visible(p) \/ C_Click(p) \/ C_Sleep(p)

\* no tool call is in progress
Quiet == \A q \in Callers : pc[q] \in Ended

\* the HTTP server runs the agent's tool calls on one event loop: calls of
\* different requests interleave at their awaits
Next ==
  \E p \in Callers :
    \/ \E url \in NavigateInputs : NavigateCall(p, url)
    \/ AddToCartCall(p)
    \/ NavigateSteps(p)
    \/ ResolveSteps(p)
    \/ ClickSteps(p)

Spec == Init /\ [][Next]_vars

\* one request at a time: a tool call starts when the previous one has ended
NextSeq ==
  \E p \in Callers :
    \/ Quiet /\ \E url \in NavigateInputs : NavigateCall(p, url)
    \/ Quiet /\ AddToCartCall(p)
    \/ NavigateSteps(p)
    \/ ResolveSteps(p)
    \/ ClickSteps(p)

SpecSeq == Init /\ [][NextSeq]_vars

\* resolve_url_headless called on its own, on any URL
NextResolver ==
  \E p \in Callers :
    \/ \E url \in ResolveInputs : ResolveCall(p, url)
    \/ ResolveSteps(p)

SpecResolver == Init /\ [][NextResolver]_vars

\* AddToCartTool.execute on the shared page, whatever the page exposes
InitClick ==
  /\ SHARED_BROWSER_STATE = OneSession
  /\ created = [drivers |-> 1, browsers |-> 1, contexts |-> 1, pages |-> 1]
  /\ \E vis \in SUBSET Selectors : pages = << [url |-> ShopUrl, vis |-> vis] >>
  /\ hlOpen = {}
  /\ pc = [p \in Callers |-> "idle"]
  /\ frame = [p \in Callers |-> Frame("none", << >>, TRUE, OneSession)]
  /\ ncalls = 0
  /\ shopping_results = << >>
  /\ opened = TRUE

NextClick == \E p \in Callers : AddToCartCall(p) \/ ClickSteps(p)

SpecClick == InitClick /\ [][NextClick]_vars

\* VisualSearchTool.execute on any answer of the search API
InitSearch ==
  /\ SHARED_BROWSER_STATE = NoSession
  /\ created = [drivers |-> 0, browsers |-> 0, contexts |-> 0, pages |-> 0]
  /\ pages = << >>
  /\ hlOpen = {}
  /\ pc = [p \in Callers |-> "idle"]
  /\ frame = [p \in Callers |-> Frame("none", << >>, FALSE, NoSession)]
  /\ ncalls = 0
  /\ shopping_results \in ResultLists
  /\ opened = FALSE

NextSearch ==
  \E p \in Callers : (\E api_key \in BOOLEAN : SearchCall(p, api_key)) \/ S_Api(p)

SpecSearch == InitSearch /\ [][NextSearch]_vars

\* ------------------------------------------------------------- properties
Navigating(p) == frame[p].tool = "navigate" /\ pc[p] \notin Ended
Driving(p) == pc[p] \in {"n_goto", "n_cookie", "c_visible", "c_click", "c_sleep"}
InResolver(p) ==
  pc[p] \in { "r_enter", "r_launch", "r_newpage", "r_goto", "r_count", "r_attr",
              "r_click", "r_tab", "r_load", "r_close", "r_exit" }
OnePerKind == [drivers |-> 1, browsers |-> 1, contexts |-> 1, pages |-> 1]

\* C1: a NavigateTool.execute call made after an earlier one returned its
\* success string performs no initialization step, the session objects made
\* in the whole run are one driver, one browser, one context and one page,
\* and the page the call drives is the one stored in SHARED_BROWSER_STATE.
C1_InitOnce ==
  \A p \in Callers :
    frame[p].tool = "navigate" /\ frame[p].afterOpened
      => /\ frame[p].inits = 0
         /\ created = OnePerKind
         /\ SHARED_BROWSER_STATE.page = created.pages
         /\ pc[p] \in {"n_goto", "n_cookie", "done"}
              => frame[p].page = SHARED_BROWSER_STATE.page

C1_Witness ==
  \E p \in Callers :
    /\ frame[p].tool = "navigate" /\ frame[p].afterOpened
    /\ pc[p] = "done" /\ frame[p].result.kind = "Browser Opened"
    /\ frame[p].page = 1

\* C2: at most one visible browser and one page are ever created, and all
\* calls that are driving a page drive the same one.
C2_OnePair ==
  /\ created.browsers <= 1
  /\ created.pages <= 1
  /\ \A p, q \in Callers : Driving(p) /\ Driving(q) => frame[p].page = frame[q].page

\* C3: no tool call ends by raising.
C3_NoRaise == \A p \in Callers : pc[p] # "raised"

\* C4: resolve_url_headless never raises, and when its navigation failed it
\* returns the input URL.
C4_NeverPropagates ==
  \A p \in Callers :
    frame[p].tool = "resolve"
      => /\ pc[p] # "raised"
         /\ pc[p] = "done" /\ frame[p].nav_failed
              => frame[p].result.url = frame[p].dirty_url

C6_NoBrowser ==
  \A p \in Callers :
    frame[p].tool = "click" /\ frame[p].atCall.page = None
      => /\ pc[p] = "done"
         /\ frame[p].result.kind = "Error: No browser open."
         /\ frame[p].checks = 0 /\ frame[p].clicks = 0
         /\ frame[p].atReturn = frame[p].atCall

C6_Witness ==
  \E p \in Callers :
    /\ frame[p].tool = "click" /\ pc[p] = "done"
    /\ frame[p].atCall = NoSession /\ frame[p].atReturn = NoSession
    /\ frame[p].result.kind = "Error: No browser open."

\* the earliest selector of the priority list among vis
FirstVisible(vis) ==
  IF vis \cap Selectors = {} THEN ""
  ELSE selectors[CHOOSE i \in 1..Len(selectors) :
              selectors[i] \in vis /\ \A j \in 1..(i - 1) : selectors[j] \notin vis]

\* C7: an AddToCartTool.execute call clicks at most once; what it clicks is
\* the earliest visible selector of the list; a call that ended without a
\* browser fault reports success after that click when some selector is
\* visible, and the failure string without any click when none is.
C7_FirstVisibleClicked ==
  \A p \in Callers :
    frame[p].tool = "click"
      => LET vis == pages[frame[p].page].vis
         IN /\ frame[p].clicks <= 1
            /\ frame[p].clicks = 1 => frame[p].clicked = FirstVisible(vis)
            /\ pc[p] = "done" /\ ~frame[p].faulted
                 => IF vis = {}
                    THEN /\ frame[p].clicks = 0
                         /\ frame[p].result.kind =
                              "FAILED: Could not find 'Add to Cart' button."
                    ELSE /\ frame[p].clicks = 1
                         /\ frame[p].result.kind = "Success: Item added to cart."

C7_Witness ==
  \E p \in Callers :
    /\ frame[p].tool = "click" /\ pc[p] = "done"
    /\ pages[frame[p].page].vis = {"button:has-text('Add to Bag')"}
    /\ frame[p].clicked = selectors[6] /\ frame[p].checks = 6
    /\ frame[p].result.kind = "Success: Item added to cart."

\* an item with a usable link (link or product_link)
Usable(item) ==
  \/ "link" \in DOMAIN item /\ item.link # << >>
  \/ "product_link" \in DOMAIN item /\ item.product_link # << >>
UsableAt(results) == {i \in 1..Len(results) : Usable(results[i])}
\* the j-th smallest member of a set of positions
Nth(S, j) == CHOOSE i \in S : Cardinality({x \in S : x <= i}) = j
Least(a, b) == IF a <= b THEN a ELSE b

\* C8: on a non-empty API answer the fragment holds min(6, k) cards, k the
\* number of items with a usable link, and card j is the j-th such item in
\* API order, carrying its quoted link.
C8_CardsCapped ==
  \A p \in Callers :
    frame[p].tool = "search" /\ pc[p] = "done" /\ frame[p].results # << >>
      => LET results == frame[p].results
             cards == frame[p].result.cards
             at == UsableAt(results)
         IN /\ frame[p].result.kind = "grid-container"
            /\ Len(cards) = Least(6, Cardinality(at))
            /\ \A j \in 1..Len(cards) :
                 LET item == results[Nth(at, j)]
                 IN /\ cards[j].title = item.title
                    /\ cards[j].encoded_link =
                         quote(IF "link" \in DOMAIN item /\ item.link # << >>
                               THEN item.link ELSE item.product_link)

C8_Witness ==
  \E p \in Callers :
    /\ frame[p].tool = "search" /\ pc[p] = "done"
    /\ Len(frame[p].results) = 8
    /\ Cardinality(UsableAt(frame[p].results)) = 7
    /\ Len(frame[p].result.cards) = 6

\* C9 as stated: given a URL without "google.com", resolve_url_headless
\* tries no extraction and returns the URL unchanged, wherever it lands.
C9_Original ==
  \A p \in Callers :
    frame[p].tool = "resolve" /\ ~HasGoogle(frame[p].dirty_url)
      => /\ ~frame[p].extraction
         /\ pc[p] = "done" => frame[p].result.url = frame[p].dirty_url

\* C9: given a URL without "google.com" whose navigation does not land on a
\* page with "google.com" in its URL either, resolve_url_headless tries no
\* extraction, and what it returns is the URL of the page it landed on, or
\* the input URL when the navigation failed.
C9_Amended ==
  \A p \in Callers :
    ( frame[p].tool = "resolve"
      /\ ~HasGoogle(frame[p].dirty_url) /\ ~HasGoogle(frame[p].hl_url) )
      => /\ ~frame[p].extraction
         /\ pc[p] = "done"
              => frame[p].result.url =
                   IF frame[p].nav_failed THEN frame[p].dirty_url ELSE frame[p].hl_url

C9_Witness ==
  \E p \in Callers :
    /\ frame[p].tool = "resolve" /\ pc[p] = "done"
    /\ ~HasGoogle(frame[p].dirty_url) /\ ~frame[p].nav_failed
    /\ frame[p].hl_url # frame[p].dirty_url
    /\ frame[p].result.url = frame[p].hl_url

\* C10: while no NavigateTool.execute call is in progress the three handles
\* of SHARED_BROWSER_STATE are all None or all set.
C10_AllOrNothing ==
  (\A p \in Callers : ~Navigating(p))
    => \/ SHARED_BROWSER_STATE = NoSession
       \/ /\ SHARED_BROWSER_STATE.playwright # None
          /\ SHARED_BROWSER_STATE.browser # None
          /\ SHARED_BROWSER_STATE.page # None

====
